---------------------------- MODULE Spec2Model ----------------------------
(***************************************************************************)
(* Incremental indexing and query engine of simple-asciinema-web-gui.      *)
(*                                                                         *)
(* The store is the SQLite database index.db (tables indexed_files,        *)
(* indexing_strategies, cast_content).  A reindex run (indexCastFiles)     *)
(* walks the active strategies and the discovered cast files and calls     *)
(* indexCastFile for every pair; every call is one SQLite transaction.     *)
(* Runs and readers own one connection each (getDatabase), the journal is  *)
(* in WAL mode: a transaction reads the snapshot taken by its first read,  *)
(* buffers its writes until COMMIT, and needs the single write lock for    *)
(* its first write.                                                        *)
(***************************************************************************)
EXTENDS Integers, Sequences, FiniteSets, TLC

\* ---------------------------------------------------------------- bounds
MaxMtime  == 2      \* modification times are 0..MaxMtime; 0 is the falsy one
MaxMods   == 1      \* file-system changes made by the environment
MaxPasses == 2      \* reindex passes of the single run
MaxConcPasses == 1  \* reindex passes of each of the concurrent runs
MaxFaults == 1      \* store statements that throw (disk, I/O, ...)
MaxReads  == 1      \* query calls of the reader
MaxVersion == 2     \* versions of a strategy and of the configuration: 1..
MaxConfigPasses == 3 \* reindex passes while the configuration is edited
MaxLines == 3       \* lines of a cast file handed to indexCastFile alone
MaxRows == 3        \* rows of the join searchCasts is run on

\* ------------------------------------------------------- files and names
\* casts/a.cast, casts/b.cast and casts/zip/a.cast.gz, where a.cast stands
\* for asciinema_<date>_<time>.cast and b.cast for demo.cast
Paths == {"pa", "pb", "za"}
CASTS_DIR == {"pa", "pb"}
ZIP_DIR == {"za"}
ReaddirOrder == <<"pa", "pb", "za">>

\* A file name is a sequence of tokens: "D1", "D2" are dates YYYY-MM-DD,
\* "T1", "T2" times HH-MM-SS ("T1:", "T2:" the same times written
\* HH:MM:SS), "work", "demo" words of a tag, "-" a hyphen, " " a blank, the
\* others literal text; only the tokens written with a "." hold a dot.
NameA == <<"asciinema_", "D1", "_", "T1", ".cast">>
NameB == <<"demo", ".cast">>
DateTokens == {"D1", "D2"}
TimeTokens == {"T1", "T2"}

\* path.basename(filePath, '.gz') / path.basename(filePath)
Filename(p) == IF p \in {"pa", "za"} THEN NameA ELSE NameB

\* new Date(`${date}T${time}`).getTime(), in minutes after D1 T1 00:01
DateObjTime(d, t) ==
  (IF d = "D1" THEN 1 ELSE 21) + (IF t = "T1" THEN 0 ELSE 9)

NoParse == [ok |-> FALSE, date |-> "", time |-> "", timestamp |-> 0,
            tags |-> <<>>, tagsString |-> <<>>]

\* match[2].replace(/-/g, ':')
ReplaceHyphens(t) == IF t = "T1" THEN "T1:" ELSE "T2:"

RECURSIVE SplitTags(_)
\* match[3].split('-').map(tag => tag.trim()).filter(Boolean): the parts
\* between hyphens, without the blanks at their ends, the empty ones dropped
SplitTags(text) ==
  LET hyphens == {k \in 1..Len(text) : text[k] = "-"}
      cut == IF hyphens = {} THEN Len(text) + 1
             ELSE CHOOSE k \in hyphens : \A j \in hyphens : k <= j
      part == SubSeq(text, 1, cut - 1)
      inked == {k \in 1..Len(part) : part[k] # " "}
      trimmed == IF inked = {} THEN <<>>
                 ELSE SubSeq(part,
                             CHOOSE k \in inked : \A j \in inked : k <= j,
                             CHOOSE k \in inked : \A j \in inked : k >= j)
      rest == IF cut > Len(text) THEN <<>>
              ELSE SplitTags(SubSeq(text, cut + 1, Len(text)))
  IN IF trimmed = <<>> THEN rest ELSE <<trimmed>> \o rest

RECURSIVE JoinTags(_)
\* tags.join(', '), '' for no tags
JoinTags(tags) ==
  IF tags = <<>> THEN <<>>
  ELSE IF Len(tags) = 1 THEN tags[1]
  ELSE tags[1] \o <<", ">> \o JoinTags(Tail(tags))

\* the token at which the match starting at token i ends (\.cast), 0 when
\* nothing matches at i: after the time either .cast, or _tags_, then one
\* or more tokens without a dot, then .cast
MatchEnd(name, i) ==
  IF ~(/\ i + 4 <= Len(name)
       /\ name[i] = "asciinema_" /\ name[i + 1] \in DateTokens
       /\ name[i + 2] = "_" /\ name[i + 3] \in TimeTokens)
  THEN 0
  ELSE IF name[i + 4] = ".cast" THEN i + 4
  ELSE IF name[i + 4] # "_tags_" THEN 0
  ELSE LET dots == {k \in (i + 5)..Len(name) : name[k] \in {".cast", ".txt"}}
       IN IF dots = {} THEN 0
          ELSE LET k == CHOOSE d \in dots : \A e \in dots : d <= e
               IN IF k > i + 5 /\ name[k] = ".cast" THEN k ELSE 0

\* the regular expression of parseFilenameDate matches at token i, with or
\* without the group _tags_<tags>
MatchesAt(name, i) == MatchEnd(name, i) # 0

\* parseFilenameDate: null (NoParse) when the name does not match
ParseFilenameDate(name) ==
  IF \E i \in 1..Len(name) : MatchesAt(name, i)
  THEN LET i == CHOOSE j \in 1..Len(name) :
                  MatchesAt(name, j) /\ \A k \in 1..(j - 1) : ~MatchesAt(name, k)
           tags == IF name[i + 4] = "_tags_"
                   THEN SplitTags(SubSeq(name, i + 5, MatchEnd(name, i) - 1))
                   ELSE <<>>
       IN [ok |-> TRUE, date |-> name[i + 1],
           time |-> ReplaceHyphens(name[i + 3]),
           timestamp |-> DateObjTime(name[i + 1], name[i + 3]),
           tags |-> tags, tagsString |-> JoinTags(tags)]
  ELSE NoParse
IsGzippedPath(p) == p \in ZIP_DIR
ZipOf(p) == "za"
HasZipPath(p) == p = "pa"

Absent == [present |-> FALSE, content |-> <<>>, mtime |-> 0]

\* A line of a cast file.  k = "hdr": the JSON header object; "ev": a JSON
\* array [t, "o", text]; "junk": a line JSON.parse rejects; "blank": an
\* empty line; "short": a JSON array of fewer than 3 elements; "num": an
\* array [t, "o", 5] whose payload is a non-zero number; "nul": an array
\* [t, "o", null]; "eio": the bytes cannot be read or inflated.
\* A payload is a sequence of symbols: printable "x", "y", blank "SP",
\* a CSI colour sequence "CSI" and a carriage return "CR".
Hdr == [k |-> "hdr", t |-> 0, text |-> <<>>]
Ev(t, text) == [k |-> "ev", t |-> t, text |-> text]
Junk == [k |-> "junk", t |-> 0, text |-> <<"x">>]
Blank == [k |-> "blank", t |-> 0, text |-> <<>>]
Eio == [k |-> "eio", t |-> 0, text |-> <<>>]
Short == [k |-> "short", t |-> 0, text |-> <<>>]
Num == [k |-> "num", t |-> 0, text |-> <<>>]
Nul == [k |-> "nul", t |-> 0, text |-> <<>>]

ContentX == <<Hdr, Ev(1, <<"CSI", "x">>)>>
ContentY == <<Hdr, Ev(1, <<"y">>), Junk, Ev(2, <<"x">>), Blank>>
ContentZ == <<Hdr, Ev(1, <<"CSI", "y">>)>>
ContentE == <<Hdr, Ev(1, <<"CSI", "CR">>)>>
ContentBad == <<Eio>>
ContentNum == <<Hdr, Ev(1, <<"y">>), Num>>
Contents == {ContentX, ContentY, ContentZ, ContentE, ContentBad, ContentNum}

\* what the environment writes into a plain file
WriteContents == {ContentZ, ContentY, ContentBad, ContentNum}

RECURSIVE SizeOf(_)
\* stats.size: the byte length of the file
SizeOf(c) == IF c = <<>> THEN 0 ELSE 1 + Len(Head(c).text) + SizeOf(Tail(c))

\* fs.stat of a present file
StatOf(f) == [size |-> SizeOf(f.content), mtime |-> f.mtime]

\* --------------------------------------------------------- configuration
StrategyIds == {"s1", "s2"}
StrategyLists == {<<"s1">>, <<"s1", "s2">>}
\* strategy.version of config.indexStrategies.find(s => s.id === strategyId);
\* 0 when indexStrategies holds no definition of that id
StrategyVersion(cfg, sid) == cfg.indexStrategies[sid]
\* index-config.json: version, currentStrategies, indexStrategies
ConfigFile(v, cur, vers) ==
  [version |-> v, currentStrategies |-> cur, indexStrategies |-> vers]
NoConfig == ConfigFile(0, <<>>, [sid \in StrategyIds |-> 0])

\* ------------------------------------------------------ content extractor
\* a JS value is truthy: a number other than 0
Truthy(n) == n # 0

\* stripColors: drops escape sequences and carriage returns
StripColors(text) == SelectSeq(text, LAMBDA s : s \notin {"CSI", "CR"})

\* !content.trim(): nothing but blanks is left
IsBlank(text) == \A i \in 1..Len(text) : text[i] = "SP"

\* loadPlainCastFile / loadGzippedCastFile: readFile or gunzip throws
LoadFails(c) == \E i \in 1..Len(c) : c[i].k = "eio"

\* loadPlainCastFile / loadGzippedCastFile: the events of the lines that are
\* not empty and that JSON.parse accepts
LoadCastFile(c) == SelectSeq(c, LAMBDA ln : ln.k \notin {"blank", "junk"})

\* the loop of indexCastFile throws: text.replace is not a function, for
\* an array of 3 elements whose payload is truthy and not a string
StripThrows(events) == \E i \in 2..Len(events) : events[i].k = "num"

RECURSIVE EventRows(_, _)
\* the loop of indexCastFile over events[i], i >= 1: the rows it inserts,
\* up to the event at which stripColors throws
EventRows(events, i) ==
  IF i > Len(events) \/ events[i].k = "num" THEN <<>>
  ELSE LET ev == events[i]
           stripped == StripColors(ev.text)
           rest == EventRows(events, i + 1)
       IN IF ev.k = "ev" /\ ev.text # <<>> /\ ~IsBlank(stripped)
          THEN <<[content |-> stripped, time_offset |-> ev.t]>> \o rest
          ELSE rest

\* events[0] is the header and is skipped (array index 0 = TLA+ index 1)
RowsOf(events) == EventRows(events, 2)

\* ------------------------------------------------------------- the store
\* a row of indexed_files; timestamp 0 stands for NULL
NoRec == [exists |-> FALSE, size |-> 0, mtime |-> 0, completed |-> FALSE,
          timestamp |-> 0]
EmptyStore == [files |-> [p \in Paths |-> NoRec],
               strat |-> {},
               content |-> [p \in Paths |-> <<>>]]

\* registerFile; the record is keyed by file_path
RegisterFile(store, p, st) ==
  LET existing == store.files[p] IN
  IF existing.exists
  THEN IF /\ existing.size = st.size
          /\ Truthy(st.mtime)
          /\ Truthy(existing.mtime)
          /\ st.mtime <= existing.mtime
       THEN store
       ELSE [store EXCEPT !.files[p] =
               [@ EXCEPT !.size = st.size, !.mtime = st.mtime,
                         !.completed = FALSE]]
  ELSE [store EXCEPT !.files[p] =
          [exists |-> TRUE, size |-> st.size, mtime |-> st.mtime,
           completed |-> FALSE,
           timestamp |-> ParseFilenameDate(Filename(p)).timestamp]]

\* isFileIndexed
IsFileIndexed(store, p, sid, ver) ==
  /\ store.files[p].exists
  /\ store.files[p].completed
  /\ \E row \in store.strat :
       row.file = p /\ row.sid = sid /\ row.ver = ver /\ Truthy(row.at)

\* isModified of indexCastFile
IsModified(store, p, st) ==
  \/ ~store.files[p].exists
  \/ store.files[p].size # st.size
  \/ ~Truthy(st.mtime)
  \/ ~Truthy(store.files[p].mtime)
  \/ st.mtime > store.files[p].mtime

\* the skip decision of indexCastFile after registerFile
UpToDate(store, p, sid, ver, st) ==
  /\ IsFileIndexed(store, p, sid, ver)
  /\ ~IsModified(store, p, st)

\* clearPartialIndexing that deletes nothing
ClearPartialIndexing_Keep(store, p) == store

\* clearPartialIndexing
ClearPartialIndexing(store, p) == [store EXCEPT !.content[p] = <<>>]

\* insertStmt.run
InsertRow(store, p, row) ==
  [store EXCEPT !.content[p] = Append(@, row)]

\* markStrategyCompleted that writes no row
MarkStrategyCompleted_None(store, p, sid, ver, now) == store

\* markStrategyCompleted: INSERT OR REPLACE on (file_id, strategy_id, version)
MarkStrategyCompleted(store, p, sid, ver, now) ==
  [store EXCEPT !.strat =
     {row \in @ : ~(row.file = p /\ row.sid = sid /\ row.ver = ver)}
       \cup {[file |-> p, sid |-> sid, ver |-> ver, at |-> now]}]

\* markFileCompleted that leaves the record as registerFile wrote it
MarkFileCompleted_None(store, p) == store

\* markFileCompleted
MarkFileCompleted(store, p) == [store EXCEPT !.files[p].completed = TRUE]

RECURSIVE InsertAll(_, _, _)
InsertAll(store, p, rows) ==
  IF rows = <<>> THEN store
  ELSE InsertAll(InsertRow(store, p, Head(rows)), p, Tail(rows))

\* indexCastFile as one whole transaction run on `store`: the store it
\* commits when nothing throws
IndexCastFileTx(store, p, sid, ver, st, rows, now) ==
  LET reg == RegisterFile(store, p, st) IN
  IF UpToDate(reg, p, sid, ver, st) THEN reg
  ELSE MarkFileCompleted(
         MarkStrategyCompleted(
           InsertAll(ClearPartialIndexing(reg, p), p, rows),
           p, sid, ver, now), p)

\* indexCastFile on a store no other connection uses: what it returns and
\* the store it leaves
IndexCastFile(store, p, sid, ver, f, now) ==
  IF ~f.present THEN [ret |-> FALSE, store |-> store]
  ELSE IF UpToDate(RegisterFile(store, p, StatOf(f)), p, sid, ver, StatOf(f))
  THEN [ret |-> TRUE, store |-> RegisterFile(store, p, StatOf(f))]
  ELSE IF LoadFails(f.content) \/ StripThrows(LoadCastFile(f.content))
  THEN [ret |-> FALSE, store |-> store]
  ELSE [ret |-> TRUE,
        store |-> IndexCastFileTx(store, p, sid, ver, StatOf(f),
                                  RowsOf(LoadCastFile(f.content)), now)]

\* findAllCastFiles where a directory that cannot be read ends the listing
FindAllCastFiles_Fatal(files, noread) ==
  IF noread # {} THEN <<>>
  ELSE SelectSeq(ReaddirOrder, LAMBDA p : files[p].present)

\* findAllCastFiles: plain files of CASTS_DIR, then .cast.gz of ZIP_DIR; a
\* directory whose readdir throws adds nothing
FindAllCastFiles(files, noread) ==
  SelectSeq(ReaddirOrder, LAMBDA p :
    /\ files[p].present
    /\ (IF p \in ZIP_DIR THEN "zip" ELSE "casts") \notin noread)


\* maintainCastFiles: the most recent plain file (stats.mtimeMs > latestMtime,
\* first one wins), "none" when no plain file has a positive mtime
LatestFile(files) ==
  LET cand == {p \in CASTS_DIR : files[p].present /\ files[p].mtime > 0}
      top == {p \in cand : \A q \in cand : files[q].mtime <= files[p].mtime}
  IN IF cand = {} THEN "none"
     ELSE IF "pa" \in top THEN "pa" ELSE "pb"

\* the WHERE clause of searchCasts over the join cast_content x indexed_files:
\* content MATCH query AND i.completed = 1, by timestamp DESC (b is the
\* later recording), time_offset ASC
SearchOrder == <<"pb", "pa", "za">>
Matches(row, q) == \E i \in 1..Len(row.content) : row.content[i] = q
\* the join without `i.completed = 1`
RowsOfFile_NoFilter(store, p, q) ==
  IF store.files[p].exists
  THEN SelectSeq([i \in 1..Len(store.content[p]) |->
                    [file |-> p, content |-> store.content[p][i].content,
                     time_offset |-> store.content[p][i].time_offset]],
                 LAMBDA row : Matches(row, q))
  ELSE <<>>

RowsOfFile(store, p, q) ==
  IF store.files[p].exists /\ store.files[p].completed
  THEN SelectSeq([i \in 1..Len(store.content[p]) |->
                    [file |-> p, content |-> store.content[p][i].content,
                     time_offset |-> store.content[p][i].time_offset]],
                 LAMBDA row : Matches(row, q))
  ELSE <<>>
MatchRows(store, q) ==
  RowsOfFile(store, SearchOrder[1], q) \o RowsOfFile(store, SearchOrder[2], q)
    \o RowsOfFile(store, SearchOrder[3], q)
Queries == {"x", "y"}

\* getIndexStats: COUNT(*) FROM indexed_files [WHERE completed = 1]
TotalFiles(store) == Cardinality({p \in Paths : store.files[p].exists})
IndexedFiles(store) ==
  Cardinality({p \in Paths : store.files[p].exists /\ store.files[p].completed})

\* ------------------------------------------------------------------ state
Runs == {1, 2}
NoStat == [size |-> 0, mtime |-> 0]
IdleRun == [pc |-> "idle", config |-> NoConfig,
            castFiles |-> <<>>, si |-> 1, fi |-> 1,
            stats |-> NoStat, base |-> EmptyStore, work |-> EmptyStore,
            pending |-> <<>>, throws |-> FALSE, k |-> 1, ret |-> "none",
            left |-> 0,
            lastp |-> "none", wrote |-> FALSE]
IdleReader == [pc |-> "idle", kind |-> "none", q |-> "x", first |-> 0,
               rows |-> <<>>, second |-> 0, db1 |-> EmptyStore,
               db2 |-> EmptyStore, open |-> FALSE, n |-> 0]

VARIABLES
  fs,          \* the two directories: path -> file
  unreadable,  \* the directories readdir fails on, of "casts" and "zip"
  config,      \* index-config.json
  indexer_version, \* the row 'indexer_version' of table version, 0: none
  db,          \* the committed store
  writer,      \* the run holding SQLite's write lock, 0 if none
  clock,       \* Date.now()
  run,         \* per run: position in indexCastFiles / indexCastFile
  rd,          \* the reader: position in searchCasts / getIndexStats
  mods,        \* file-system changes so far
  faults,      \* store errors so far
  lastExtract, \* history: rows written by the last committed extraction
  hist,        \* history of the passes of run 1
  stale,       \* history: <<path, strategy>> applied before a modification
  args,        \* a single function under test: its arguments
  result       \* a single function under test: what it returned

vars == <<fs, config, indexer_version, db, writer, clock, run, rd, mods,
          faults, lastExtract, hist, stale, args, result, unreadable>>

File(c, m) == [present |-> TRUE, content |-> c, mtime |-> m]

NoStart == [db |-> EmptyStore, fs |-> [p \in Paths |-> Absent],
            touched |-> {}, other |-> FALSE, prevOK |-> FALSE,
            config |-> NoConfig, prevConfig |-> NoConfig,
            indexer_version |-> 0]
InitHist == [n |-> 0, dirty |-> FALSE, touched |-> {}, other |-> FALSE,
             inserted |-> FALSE, reproc |-> {}, skipped |-> {},
             called |-> {}, ok |-> {}, start |-> NoStart]

NoCall == [returned |-> FALSE, value |-> <<>>]
Returned(v) == [returned |-> TRUE, value |-> v]

InitCommon ==
  /\ args = NoCall
  /\ result = NoCall
  /\ config \in {ConfigFile(1, cur, [sid \in StrategyIds |-> 1]) :
                    cur \in StrategyLists}
                 \cup {ConfigFile(1, <<"s2", "s1">>,
                                  [sid \in StrategyIds |->
                                     IF sid = "s1" THEN 1 ELSE 0])}
  /\ writer = 0
  /\ rd = IdleReader
  /\ faults = 0
  /\ hist = InitHist
  /\ stale = {}

\* one run, a changing file system
Init ==
  /\ InitCommon
  /\ \E ma \in 0..MaxMtime, cb \in {ContentY, ContentE} :
       fs = [p \in Paths |->
               IF p = "pa" THEN File(ContentX, ma)
               ELSE IF p = "pb" THEN File(cb, MaxMtime) ELSE Absent]
  /\ db = EmptyStore
  /\ indexer_version = 0
  /\ lastExtract = [p \in Paths |-> <<>>]
  /\ clock = 1
  /\ run = [r \in Runs |-> [IdleRun EXCEPT !.left = MaxPasses]]
  /\ mods = 0
  /\ unreadable \in {{}, {"casts"}, {"zip"}}

\* two runs and a reader over a file system at rest: a.cast was indexed
\* under s1 by an earlier pass and rewritten since, b.cast is new
InitConc ==
  /\ InitCommon
  /\ fs = [p \in Paths |->
             IF p = "pa" THEN File(ContentZ, 2)
             ELSE IF p = "pb" THEN File(ContentY, 2) ELSE Absent]
  /\ db = IndexCastFileTx(EmptyStore, "pa", "s1", 1,
                          StatOf(File(ContentX, 1)), RowsOf(ContentX), 1)
  /\ indexer_version = 1
  /\ lastExtract = [p \in Paths |->
                      IF p = "pa" THEN RowsOf(ContentX) ELSE <<>>]
  /\ clock = 2
  /\ run = [r \in Runs |-> [IdleRun EXCEPT !.left = MaxConcPasses]]
  /\ mods = MaxMods
  /\ unreadable = {}

\* ------------------------------------------------------ the file system
\* history kept for a change of the file system
NoteChange(p, isModification) ==
  IF run[1].pc # "idle"
  THEN [hist EXCEPT !.dirty = TRUE]
  ELSE IF isModification
       THEN [hist EXCEPT !.touched =
               IF \E e \in @ : e.p = p THEN @
               ELSE @ \cup {[p |-> p, old |-> StatOf(fs[p])]}]
       ELSE [hist EXCEPT !.other = TRUE]

\* the recorder or any other program writes a plain cast file
WriteFile(p, c, m) ==
  /\ mods < MaxMods
  /\ p \in CASTS_DIR
  /\ fs[p] # File(c, m)
  /\ fs' = [fs EXCEPT ![p] = File(c, m)]
  /\ mods' = mods + 1
  /\ hist' = NoteChange(p, fs[p].present)
  /\ stale' = IF /\ fs[p].present /\ m > fs[p].mtime
                    /\ \A r \in Runs : run[r].pc = "idle"
              THEN stale \cup {<<p, sid>> : sid \in
                     {s \in StrategyIds :
                        \E row \in db.strat :
                          /\ row.file = p /\ row.sid = s
                          /\ row.ver = StrategyVersion(config, s)
                          /\ Truthy(row.at)}}
              ELSE stale
  /\ UNCHANGED <<config, indexer_version, db, writer, clock, run, rd, faults,
                 lastExtract, args, result, unreadable>>

\* maintainCastFiles, compressFile: the .gz copy of a plain file that is not
\* the most recent one
Compress(p, m) ==
  /\ mods < MaxMods
  /\ HasZipPath(p) /\ fs[p].present /\ ~fs[ZipOf(p)].present
  /\ LatestFile(fs) # p
  /\ fs' = [fs EXCEPT ![ZipOf(p)] = File(fs[p].content, m)]
  /\ mods' = mods + 1
  /\ hist' = NoteChange(ZipOf(p), FALSE)
  /\ UNCHANGED <<config, indexer_version, db, writer, clock, run, rd, faults,
                 lastExtract, stale, args, result, unreadable>>

\* maintainCastFiles, fs.promises.unlink: the original is deleted once the
\* compressed copy exists
Unlink(p) ==
  /\ HasZipPath(p) /\ fs[p].present /\ fs[ZipOf(p)].present
  /\ LatestFile(fs) # p
  /\ fs' = [fs EXCEPT ![p] = Absent]
  /\ hist' = NoteChange(p, FALSE)
  /\ UNCHANGED <<config, indexer_version, db, writer, clock, run, rd, mods,
                 faults, lastExtract, stale, args, result, unreadable>>

\* ------------------------------------------------------- a reindex run
CurPath(r) == run[r].castFiles[run[r].fi]
CurStrategy(r) == run[r].config.currentStrategies[run[r].si]
CurVersion(r) == StrategyVersion(run[r].config, CurStrategy(r))
InTx(r) == run[r].pc \in {"clear", "load", "insert"}

\* loops that a failed call of indexCastFile ends: no pair is left
Advance_AbortOnFailure(rs, res) ==
  LET lastFile == rs.fi >= Len(rs.castFiles) IN
  [rs EXCEPT !.pc = "next",
             !.fi = IF lastFile \/ res = "fail" THEN 1 ELSE @ + 1,
             !.si = IF res = "fail" THEN Len(rs.config.currentStrategies) + 1
                    ELSE IF lastFile THEN @ + 1 ELSE @,
             !.ret = res, !.lastp = rs.castFiles[rs.fi],
             !.wrote = rs.work # rs.base,
             !.stats = NoStat, !.base = EmptyStore,
             !.work = EmptyStore, !.pending = <<>>, !.throws = FALSE,
             !.k = 1]

\* the two for loops of indexCastFiles: the next pair, or past the last one
Advance(rs, res) ==
  LET lastFile == rs.fi >= Len(rs.castFiles) IN
  [rs EXCEPT !.pc = "next",
             !.fi = IF lastFile THEN 1 ELSE @ + 1,
             !.si = IF lastFile THEN @ + 1 ELSE @,
             !.ret = res, !.lastp = rs.castFiles[rs.fi],
             !.wrote = rs.work # rs.base,
             !.stats = NoStat, !.base = EmptyStore,
             !.work = EmptyStore, !.pending = <<>>, !.throws = FALSE,
             !.k = 1]

PassDone(r) ==
  \/ run[r].si > Len(run[r].config.currentStrategies)
  \/ run[r].castFiles = <<>>

\* a catch block that gives up without ROLLBACK: the writes made so far
\* reach the store
Rollback_Leaky(r) ==
  /\ run' = [run EXCEPT ![r] = Advance(@, "fail")]
  /\ writer' = IF writer = r THEN 0 ELSE writer
  /\ db' = IF InTx(r) THEN run[r].work ELSE db

\* database.exec('ROLLBACK') and `return false`: the buffered writes are
\* dropped and the write lock is released
Rollback(r) ==
  /\ run' = [run EXCEPT ![r] = Advance(@, "fail")]
  /\ writer' = IF writer = r THEN 0 ELSE writer
  /\ db' = db

\* no write lock and no snapshot check: every write is granted
CanWrite_Always(r) == TRUE

\* SQLite grants the first write of a transaction: nobody else writes and
\* the snapshot the transaction read is still the last committed state
CanWrite(r) == writer = r \/ (writer = 0 /\ run[r].base = db)

\* indexCastFiles up to findAllCastFiles: loadConfig, getDatabase,
\* setVersion('indexer_version', config.version), findAllCastFiles.  The
\* write of setVersion waits for the write lock.
StartPass(r) ==
  /\ run[r].pc = "idle"
  /\ run[r].left > 0
  /\ writer = 0
  /\ indexer_version' = config.version
  /\ run' = [run EXCEPT ![r] =
       [@ EXCEPT !.pc = "next", !.config = config,
                 !.castFiles = FindAllCastFiles(fs, unreadable),
                 !.si = 1, !.fi = 1, !.left = @ - 1]]
  /\ clock' = clock + 1
  /\ hist' = IF r = 1
             THEN [hist EXCEPT
                     !.n = @ + 1, !.dirty = FALSE, !.touched = {},
                     !.other = FALSE, !.inserted = FALSE, !.reproc = {},
                     !.skipped = {}, !.called = {}, !.ok = {},
                     !.start = [db |-> db, fs |-> fs,
                                touched |-> hist.touched,
                                other |-> hist.other,
                                prevOK |-> hist.n >= 1 /\ ~hist.dirty,
                                config |-> config,
                                prevConfig |-> run[r].config,
                                indexer_version |-> indexer_version]]
             ELSE hist
  /\ UNCHANGED <<fs, config, db, writer, rd, mods, faults, lastExtract,
                 stale, args, result, unreadable>>

\* indexCastFiles: setVersion throws SQLITE_BUSY when the busy timeout ends
\* while another connection still holds the write lock; the outer catch logs
\* the error and the pass ends before any file is processed
StartPassBusy(r) ==
  /\ run[r].pc = "idle"
  /\ run[r].left > 0
  /\ writer \notin {0, r}
  /\ run' = [run EXCEPT ![r] = [@ EXCEPT !.left = @ - 1, !.ret = "busy"]]
  /\ UNCHANGED <<fs, config, indexer_version, db, writer, clock, rd, mods,
                 faults, lastExtract, hist, stale, args, result, unreadable>>

\* indexCastFiles: the loops are exhausted, database.close()
EndPass(r) ==
  /\ run[r].pc = "next"
  /\ PassDone(r)
  /\ run' = [run EXCEPT ![r] = [@ EXCEPT !.pc = "idle"]]
  /\ UNCHANGED <<fs, config, indexer_version, db, writer, clock, rd, mods,
                 faults, lastExtract, hist, stale, args, result, unreadable>>

\* an unknown strategy id ends the pass
SkipStrategy_EndPass(r) ==
  /\ run[r].pc = "next"
  /\ ~PassDone(r)
  /\ run[r].fi = 1
  /\ CurVersion(r) = 0
  /\ run' = [run EXCEPT ![r] =
       [@ EXCEPT !.si = Len(run[r].config.currentStrategies) + 1]]
  /\ UNCHANGED <<fs, config, indexer_version, db, writer, clock, rd, mods,
                 faults, lastExtract, hist, stale, args, result, unreadable>>

\* indexCastFiles: `if (!strategy) { console.error(...); continue; }`, the
\* strategy id has no definition and the loop goes on to the next id
SkipStrategy(r) ==
  /\ run[r].pc = "next"
  /\ ~PassDone(r)
  /\ run[r].fi = 1
  /\ CurVersion(r) = 0
  /\ run' = [run EXCEPT ![r] = [@ EXCEPT !.si = @ + 1]]
  /\ UNCHANGED <<fs, config, indexer_version, db, writer, clock, rd, mods,
                 faults, lastExtract, hist, stale, args, result, unreadable>>

\* indexCastFile: fileProcessor.statAsync(filePath); a vanished file throws
\* before BEGIN and the call returns false
Stat(r) ==
  /\ run[r].pc = "next"
  /\ ~PassDone(r)
  /\ CurVersion(r) # 0
  /\ run' = [run EXCEPT ![r] =
       IF fs[CurPath(r)].present
       THEN [@ EXCEPT !.pc = "begin", !.stats = StatOf(fs[CurPath(r)])]
       ELSE Advance(@, "fail")]
  /\ hist' = IF r = 1
             THEN [hist EXCEPT !.called = @ \cup {<<CurPath(r), CurStrategy(r)>>}]
             ELSE hist
  /\ UNCHANGED <<fs, config, indexer_version, db, writer, clock, rd, mods,
                 faults, lastExtract, stale, args, result, unreadable>>

\* indexCastFile: BEGIN, registerFile, isFileIndexed and the isModified test.
\* Up to date: COMMIT and return true.  A write of registerFile while another
\* connection holds the write lock throws SQLITE_BUSY.
Register(r) ==
  LET p == CurPath(r)
      sid == CurStrategy(r)
      st == run[r].stats
      reg == RegisterFile(db, p, st)
  IN /\ run[r].pc = "begin"
     /\ IF reg # db /\ writer # 0
        THEN Rollback(r) /\ hist' = hist
        ELSE IF UpToDate(reg, p, sid, CurVersion(r), st)
        THEN /\ db' = reg
             /\ writer' = writer
             /\ run' = [run EXCEPT ![r] = Advance(@, "skip")]
             /\ hist' = IF r = 1
                        THEN [hist EXCEPT !.skipped = @ \cup {<<p, sid>>}]
                        ELSE hist
        ELSE /\ db' = db
             /\ writer' = IF reg # db THEN r ELSE writer
             /\ run' = [run EXCEPT ![r] =
                  [@ EXCEPT !.pc = "clear", !.base = db, !.work = reg]]
             /\ hist' = hist
     /\ UNCHANGED <<fs, config, indexer_version, clock, rd, mods, faults,
                    lastExtract, stale, args, result, unreadable>>

\* indexCastFile: clearPartialIndexing
Clear(r) ==
  /\ run[r].pc = "clear"
  /\ IF CanWrite(r)
     THEN /\ run' = [run EXCEPT ![r] =
               [@ EXCEPT !.pc = "load",
                         !.work = ClearPartialIndexing(@, CurPath(r))]]
          /\ writer' = r
          /\ db' = db
     ELSE Rollback(r)
  /\ UNCHANGED <<fs, config, indexer_version, clock, rd, mods, faults,
                 lastExtract, hist, stale, args, result, unreadable>>

\* indexCastFile: loadGzippedCastFile / loadPlainCastFile; a vanished or
\* unreadable file throws
Load(r) ==
  LET f == fs[CurPath(r)] IN
  /\ run[r].pc = "load"
  /\ IF f.present /\ ~LoadFails(f.content)
     THEN /\ run' = [run EXCEPT ![r] =
               [@ EXCEPT !.pc = "insert",
                         !.pending = RowsOf(LoadCastFile(f.content)),
                         !.throws = StripThrows(LoadCastFile(f.content)),
                         !.k = 1]]
          /\ writer' = writer
          /\ db' = db
     ELSE Rollback(r)
  /\ UNCHANGED <<fs, config, indexer_version, clock, rd, mods, faults,
                 lastExtract, hist, stale, args, result, unreadable>>

\* indexCastFile: one insertStmt.run of the event loop
Insert(r) ==
  /\ run[r].pc = "insert"
  /\ run[r].k <= Len(run[r].pending)
  /\ run' = [run EXCEPT ![r] =
       [@ EXCEPT !.work = InsertRow(@, CurPath(r), run[r].pending[run[r].k]),
                 !.k = @ + 1]]
  /\ UNCHANGED <<fs, config, indexer_version, db, writer, clock, rd, mods,
                 faults, lastExtract, hist, stale, args, result, unreadable>>

\* indexCastFile: the event loop ends.  Either stripColors throws at the
\* next event and the catch block rolls back, or markStrategyCompleted,
\* markFileCompleted, COMMIT
Finish(r) ==
  LET p == CurPath(r)
      sid == CurStrategy(r)
  IN /\ run[r].pc = "insert"
     /\ run[r].k > Len(run[r].pending)
     /\ IF run[r].throws
        THEN /\ Rollback(r)
             /\ UNCHANGED <<lastExtract, hist, stale, unreadable>>
        ELSE /\ db' = MarkFileCompleted(
                        MarkStrategyCompleted(run[r].work, p, sid,
                                              CurVersion(r), clock), p)
             /\ writer' = 0
             /\ run' = [run EXCEPT ![r] = Advance(@, "ok")]
             /\ lastExtract' = [lastExtract EXCEPT ![p] = run[r].pending]
             /\ hist' = IF r = 1
                        THEN [hist EXCEPT
                                !.reproc = @ \cup {p},
                                !.ok = @ \cup {<<p, sid>>},
                                !.inserted = @ \/ run[r].pending # <<>>]
                        ELSE hist
             /\ stale' = IF fs[p].present /\ run[r].stats = StatOf(fs[p])
                         THEN stale \ {<<p, sid>>} ELSE stale
     /\ UNCHANGED <<fs, config, indexer_version, clock, rd, mods, faults,
                    args, result, unreadable>>

\* a statement of the transaction throws (disk full, I/O error): the catch
\* block of indexCastFile rolls back
StoreError(r) ==
  /\ faults < MaxFaults
  /\ run[r].pc \in {"begin", "clear", "insert"}
  /\ Rollback(r)
  /\ faults' = faults + 1
  /\ hist' = IF r = 1 THEN [hist EXCEPT !.dirty = TRUE] ELSE hist
  /\ UNCHANGED <<fs, config, indexer_version, clock, rd, mods, lastExtract,
                 stale, args, result, unreadable>>

\* ------------------------------------------------------------ the reader
\* a reader that sees the uncommitted writes of the open transaction
ReaderView_Dirty ==
  IF \E r \in Runs : writer = r /\ run[r].pc \in {"clear", "load", "insert"}
  THEN run[CHOOSE r \in Runs : writer = r].work
  ELSE db

\* what a statement of another connection reads in WAL mode: the last
\* committed state
ReaderView == db

\* an open transaction holds writes that would change the answer
OpenSearch(q) ==
  \E r \in Runs : InTx(r) /\ MatchRows(run[r].work, q) # MatchRows(db, q)
OpenStats ==
  \E r \in Runs : InTx(r) /\ (\/ TotalFiles(run[r].work) # TotalFiles(db)
                               \/ IndexedFiles(run[r].work) # IndexedFiles(db))

\* searchCasts: the COUNT(*) statement
SearchCount(q) ==
  /\ rd.pc = "idle"
  /\ rd.n < MaxReads
  /\ rd' = [IdleReader EXCEPT !.pc = "counted", !.kind = "search", !.q = q,
              !.first = Len(MatchRows(ReaderView, q)), !.db1 = db,
              !.open = OpenSearch(q), !.n = rd.n + 1]
  /\ UNCHANGED <<fs, config, indexer_version, db, writer, clock, run, mods,
                 faults, lastExtract, hist, stale, args, result, unreadable>>

\* searchCasts: the main statement, then database.close()
SearchMain ==
  /\ rd.pc = "counted"
  /\ rd.kind = "search"
  /\ rd' = [rd EXCEPT !.pc = "idle", !.rows = MatchRows(ReaderView, rd.q),
              !.db2 = db, !.open = @ \/ OpenSearch(rd.q)]
  /\ UNCHANGED <<fs, config, indexer_version, db, writer, clock, run, mods,
                 faults, lastExtract, hist, stale, args, result, unreadable>>

\* getIndexStats: SELECT COUNT(*) FROM indexed_files
StatsTotal ==
  /\ rd.pc = "idle"
  /\ rd.n < MaxReads
  /\ rd' = [IdleReader EXCEPT !.pc = "counted", !.kind = "stats",
              !.first = TotalFiles(ReaderView), !.db1 = db,
              !.open = OpenStats, !.n = rd.n + 1]
  /\ UNCHANGED <<fs, config, indexer_version, db, writer, clock, run, mods,
                 faults, lastExtract, hist, stale, args, result, unreadable>>

\* getIndexStats: SELECT COUNT(*) ... WHERE completed = 1, database.close()
StatsCompleted ==
  /\ rd.pc = "counted"
  /\ rd.kind = "stats"
  /\ rd' = [rd EXCEPT !.pc = "idle", !.second = IndexedFiles(ReaderView),
              !.db2 = db, !.open = @ \/ OpenStats]
  /\ UNCHANGED <<fs, config, indexer_version, db, writer, clock, run, mods,
                 faults, lastExtract, hist, stale, args, result, unreadable>>

\* ------------------------------------------------------ the configuration
\* index-config.json is edited: the version of a strategy definition
SetStrategyVersion(sid, v) ==
  /\ config.indexStrategies[sid] # v
  /\ config' = [config EXCEPT !.indexStrategies[sid] = v]
  /\ UNCHANGED <<fs, indexer_version, db, writer, clock, run, rd, mods,
                 faults, lastExtract, hist, stale, args, result, unreadable>>

\* index-config.json is edited: the version string of the configuration
SetConfigVersion(v) ==
  /\ config.version # v
  /\ config' = [config EXCEPT !.version = v]
  /\ UNCHANGED <<fs, indexer_version, db, writer, clock, run, rd, mods,
                 faults, lastExtract, hist, stale, args, result, unreadable>>

\* --------------------------------------------------------- specifications
RunStep(r) ==
  \/ StartPass(r)
  \/ SkipStrategy(r)
  \/ Stat(r)
  \/ Register(r)
  \/ Clear(r)
  \/ Load(r)
  \/ Insert(r)
  \/ Finish(r)
  \/ EndPass(r)

Environment ==
  \/ \E p \in CASTS_DIR, c \in WriteContents, m \in 0..MaxMtime :
       WriteFile(p, c, m)
  \/ \E p \in CASTS_DIR, m \in 1..MaxMtime : Compress(p, m)
  \/ \E p \in CASTS_DIR : Unlink(p)

Reader ==
  \/ \E q \in Queries : SearchCount(q)
  \/ SearchMain
  \/ StatsTotal
  \/ StatsCompleted

Next == RunStep(1) \/ StoreError(1) \/ Environment

Spec == Init /\ [][Next]_vars

NextConc ==
  \/ \E r \in Runs : RunStep(r)
  \/ \E r \in Runs : StartPassBusy(r)
  \/ Reader

SpecConc == InitConc /\ [][NextConc]_vars

\* one run over a file system at rest, the configuration is edited
InitConfig ==
  /\ InitCommon
  /\ \E ma \in 0..1 :
       fs = [p \in Paths |->
               IF p = "pa" THEN File(ContentX, ma)
               ELSE IF p = "pb" THEN File(ContentY, MaxMtime) ELSE Absent]
  /\ db = EmptyStore
  /\ indexer_version = 0
  /\ lastExtract = [p \in Paths |-> <<>>]
  /\ clock = 1
  /\ run = [r \in Runs |-> [IdleRun EXCEPT !.left = MaxConfigPasses]]
  /\ mods = MaxMods
  /\ unreadable = {}

ConfigEdit ==
  \/ \E v \in 1..MaxVersion : SetStrategyVersion("s1", v)
  \/ \E v \in 1..MaxVersion : SetConfigVersion(v)

NextConfig == RunStep(1) \/ StoreError(1) \/ ConfigEdit

SpecConfig == InitConfig /\ [][NextConfig]_vars

\* ---------------------------------------------- single functions under test
\* the program at rest, around a call of one function
InitAtRest ==
  /\ fs = [p \in Paths |-> Absent]
  /\ config = NoConfig
  /\ indexer_version = 0
  /\ db = EmptyStore
  /\ writer = 0
  /\ clock = 1
  /\ run = [r \in Runs |-> IdleRun]
  /\ rd = IdleReader
  /\ mods = 0
  /\ faults = 0
  /\ lastExtract = [p \in Paths |-> <<>>]
  /\ hist = InitHist
  /\ stale = {}
  /\ unreadable = {}
  /\ result = NoCall

AtRest ==
  UNCHANGED <<fs, config, indexer_version, db, writer, clock, run, rd, mods,
              faults, lastExtract, hist, stale, unreadable>>

\* file sizes and indexed_files rows registerFile can meet
Sizes == {SizeOf(c) : c \in Contents}
FileStats == [size : Sizes, mtime : 0..MaxMtime]
FileRecords ==
  {NoRec} \cup [exists : {TRUE}, size : Sizes, mtime : 0..MaxMtime,
               completed : BOOLEAN,
               timestamp : {ParseFilenameDate(Filename("pa")).timestamp}]

\* the store in which the row of casts/a.cast is `rec`
StoreWith(rec) == [EmptyStore EXCEPT !.files["pa"] = rec]

InitRegister ==
  /\ InitAtRest
  /\ args \in [existing : FileRecords, fileInfo : FileStats]

\* db.registerFile(database, filePath, filename, stats)
CallRegisterFile ==
  /\ ~result.returned
  /\ result' = Returned(RegisterFile(StoreWith(args.existing), "pa",
                                     args.fileInfo))
  /\ UNCHANGED args
  /\ AtRest

SpecRegister == InitRegister /\ [][CallRegisterFile]_vars

\* the lines a cast file is made of
Lines == {Hdr, Ev(1, <<"CSI", "x">>), Ev(2, <<"y">>), Ev(3, <<"CSI", "CR">>),
          Junk, Blank, Short, Num, Nul}
FileContents == UNION {[1..n -> Lines] : n \in 1..MaxLines}

InitExtract ==
  /\ InitAtRest
  /\ args \in [filePath : {"pa", "za"}, content : FileContents]

\* indexCastFile(database, filePath, strategy, isGzipped) on an empty store
CallIndexCastFile ==
  /\ ~result.returned
  /\ result' = Returned(IndexCastFile(EmptyStore, args.filePath, "s1", 1,
                                      File(args.content, 1), clock))
  /\ UNCHANGED args
  /\ AtRest

SpecExtract == InitExtract /\ [][CallIndexCastFile]_vars

\* ------------------------------------------------------------ searchCasts
\* A row of cast_content JOIN indexed_files: rowid and content, time_offset,
\* tags of the fragment; timestamp, date, completed of its artifact.
\* timestamp and date 0 stand for NULL (the filename did not parse); dates
\* are day numbers, 1 = 1969-12-31 and 2 = 1970-01-01.
MsPerMinute == 60 * 1000
DateOf(ts) == IF ts = 0 THEN 0 ELSE IF ts < 0 THEN 1 ELSE 2
JoinRow(id, ts, content, tags, completed) ==
  [rowid |-> id, content |-> content, time_offset |-> id, tags |-> tags,
   timestamp |-> ts, date |-> DateOf(ts), completed |-> completed]

\* the options of searchCasts and their defaults
DefaultLimit == 50
DefaultTimeWindow == 10
Options(tags, dateFrom, dateTo, limit, offset, timeWindow) ==
  [tags |-> tags, dateFrom |-> dateFrom, dateTo |-> dateTo, limit |-> limit,
   offset |-> offset, timeWindow |-> timeWindow]

\* LIKE compares ASCII letters without regard to case
Fold(c) == IF c = "A" THEN "a" ELSE IF c = "B" THEN "b" ELSE c

RECURSIVE Like(_, _)
\* text LIKE pat: "%" stands for any characters, "_" for any one character
Like(text, pat) ==
  IF pat = <<>> THEN text = <<>>
  ELSE IF Head(pat) = "%"
  THEN \E k \in 0..Len(text) : Like(SubSeq(text, k + 1, Len(text)), Tail(pat))
  ELSE /\ text # <<>>
       /\ Head(pat) = "_" \/ Fold(Head(text)) = Fold(Head(pat))
       /\ Like(Tail(text), Tail(pat))

\* c.tags LIKE %tag% for one of the tags, when tags are given; a text is a
\* sequence of characters
TagsLike(row, tags) ==
  tags = <<>> \/ \E k \in 1..Len(tags) :
                    Like(row.tags, <<"%">> \o tags[k] \o <<"%">>)

\* the WHERE clause: content MATCH ? AND i.completed = 1 AND the tag and
\* date conditions; a comparison with a NULL date is not true
WhereClause(row, query, o) ==
  /\ Matches(row, query)
  /\ row.completed
  /\ TagsLike(row, o.tags)
  /\ o.dateFrom # 0 => (row.date # 0 /\ row.date >= o.dateFrom)
  /\ o.dateTo # 0 => (row.date # 0 /\ row.date <= o.dateTo)

Matching(table, query, o) ==
  {i \in DOMAIN table : WhereClause(table[i], query, o)}

\* a window counted in seconds
TimeWindowMs_Seconds(timeWindow) == timeWindow * 1000

\* timeWindowMs = timeWindow * 60 * 1000
TimeWindowMs(timeWindow) == timeWindow * MsPerMinute

\* the division of two SQL integers truncates towards zero
SqlDiv(a, b) == IF a >= 0 THEN a \div b ELSE -((-a) \div b)

\* division that rounds down
TimeWindowOf_Floor(ts, windowMs) ==
  IF ts = 0 THEN [null |-> TRUE, n |-> 0]
  ELSE [null |-> FALSE, n |-> ts \div windowMs]

\* (i.timestamp / timeWindowMs) AS time_window; NULL for a NULL timestamp
TimeWindowOf(ts, windowMs) ==
  IF ts = 0 THEN [null |-> TRUE, n |-> 0]
  ELSE [null |-> FALSE, n |-> SqlDiv(ts, windowMs)]

\* ORDER BY timestamp DESC: a is not after b; NULL sorts last
TimestampDesc(a, b) == b = 0 \/ (a # 0 /\ a >= b)

\* the rows with row_num = 1: one row of every partition, none of its
\* partition before it in ORDER BY i.timestamp DESC; which of several rows
\* of equal timestamp gets row_num 1 is not determined
RowNumberOne(table, ids, windowMs) ==
  LET part(i) == TimeWindowOf(table[i].timestamp, windowMs)
      parts == {part(i) : i \in ids}
  IN {{pick[b] : b \in parts} :
        pick \in {f \in [parts -> ids] :
                   \A b \in parts :
                     /\ part(f[b]) = b
                     /\ \A j \in ids : part(j) = b =>
                          TimestampDesc(table[f[b]].timestamp,
                                        table[j].timestamp)}}

\* the orders ORDER BY timestamp DESC alone may give `ids`
Ordered_ByTimestamp(table, ids, byOffset) ==
  {s \in [1..Cardinality(ids) -> ids] :
     /\ \A i, j \in DOMAIN s : i # j => s[i] # s[j]
     /\ \A i, j \in DOMAIN s : i < j =>
          TimestampDesc(table[s[i]].timestamp, table[s[j]].timestamp)}

\* the orders ORDER BY timestamp DESC [, time_offset ASC] may give `ids`
Ordered(table, ids, byOffset) ==
  {s \in [1..Cardinality(ids) -> ids] :
     /\ \A i, j \in DOMAIN s : i # j => s[i] # s[j]
     /\ \A i, j \in DOMAIN s : i < j =>
          /\ TimestampDesc(table[s[i]].timestamp, table[s[j]].timestamp)
          /\ (byOffset /\ table[s[i]].timestamp = table[s[j]].timestamp)
               => table[s[i]].time_offset <= table[s[j]].time_offset}

\* LIMIT ? OFFSET ?
LimitOffset(s, limit, offset) ==
  IF offset >= Len(s) THEN <<>>
  ELSE SubSeq(s, offset + 1,
              IF offset + limit < Len(s) THEN offset + limit ELSE Len(s))

\* searchCasts(query, options): the {results, total} it may return
SearchCasts(table, query, o) ==
  LET ids == Matching(table, query, o)
      kept == IF o.timeWindow > 0
              THEN RowNumberOne(table, ids, TimeWindowMs(o.timeWindow))
              ELSE {ids}
  IN UNION {{[results |-> LimitOffset([i \in DOMAIN s |-> table[s[i]]],
                                      o.limit, o.offset),
              total |-> Cardinality(k)] :
               s \in Ordered(table, k, o.timeWindow <= 0)} : k \in kept}

\* the joins searchCasts is run on: artifact timestamps on both sides of
\* the epoch and of a window boundary, rows failing one condition of WHERE
Timestamps == {0, -30000, 30000, 60000, 660000}
JoinRows(id) ==
  {JoinRow(id, ts, c, tg, d) :
     ts \in Timestamps,
     c \in {<<"x">>}, tg \in {<<"a">>}, d \in {TRUE}}
  \cup {JoinRow(id, ts, <<"y">>, <<"a">>, TRUE) : ts \in Timestamps \ {0}}
  \cup {JoinRow(id, ts, <<"x">>, <<"a">>, FALSE) : ts \in Timestamps}
  \cup {JoinRow(id, ts, <<"x">>, <<>>, TRUE) : ts \in Timestamps}
Tables == {t \in [1..MaxRows -> UNION {JoinRows(i) : i \in 1..MaxRows}] :
             \A i \in 1..MaxRows : t[i].rowid = i}
Filters == {<<<<>>, 0, 0>>, <<<< <<"a">> >>, 0, 0>>, <<<<>>, 2, 0>>,
            <<<<>>, 0, 1>>}
Pages == {<<DefaultLimit, 0>>, <<1, 0>>, <<1, 1>>, <<2, 2>>}
TimeWindows == {-1, 0, 1, DefaultTimeWindow}

\* fragments of completed artifacts recorded at T, T + 2 min, T + 9 min
\* and T + 15 min, all matching the query
ExampleTable(T) ==
  [i \in 1..4 |->
     JoinRow(i, T + (<<0, 2, 9, 15>>)[i] * MsPerMinute, <<"x">>, <<>>, TRUE)]
BaseTimestamps ==
  {m * MsPerMinute : m \in 1..10} \cup {630000, 1200000, -600000}

InitSearch ==
  /\ InitAtRest
  /\ \/ \E t \in Tables, f \in Filters, pg \in Pages, w \in TimeWindows :
          args = [table |-> t, query |-> "x",
                  options |-> Options(f[1], f[2], f[3], pg[1], pg[2], w)]
     \/ \E T \in BaseTimestamps :
          args = [table |-> ExampleTable(T), query |-> "x",
                  options |-> Options(<<>>, 0, 0, DefaultLimit, 0,
                                      DefaultTimeWindow)]

\* searchCasts(query, options)
CallSearchCasts ==
  /\ ~result.returned
  /\ \E v \in SearchCasts(args.table, args.query, args.options) :
       result' = Returned(v)
  /\ UNCHANGED args
  /\ AtRest

SpecSearch == InitSearch /\ [][CallSearchCasts]_vars

\* the filenames parseFilenameDate is given: text before and after, a
\* date, a time, a tag suffix of up to MaxTagTokens tokens, an extension
MaxTagTokens == 3
InitParse ==
  /\ InitAtRest
  /\ \E pre \in {<<>>, <<"x">>}, d \in DateTokens \cup {"x"},
        t \in TimeTokens \cup {"x"},
        suffix \in {<<>>} \cup
          {<<"_tags_">> \o tg :
             tg \in UNION {[1..n -> {"work", "demo", "-", " "}] :
                             n \in 0..MaxTagTokens}},
        ext \in {<<".cast">>, <<".txt">>, <<".cast", ".txt">>} :
       args = [filename |-> pre \o <<"asciinema_", d, "_", t>> \o suffix
                                \o ext]

\* parseFilenameDate(filename)
CallParseFilenameDate ==
  /\ ~result.returned
  /\ result' = Returned(ParseFilenameDate(args.filename))
  /\ UNCHANGED args
  /\ AtRest

SpecParse == InitParse /\ [][CallParseFilenameDate]_vars

\* ------------------------------------------------- the search and stats API
\* A JavaScript value of a request body: undefined, a number or a string.
Undefined == [t |-> "undefined", n |-> 0, s |-> ""]
Number(n) == [t |-> "number", n |-> n, s |-> ""]
String(s) == [t |-> "string", n |-> 0, s |-> s]

\* parseInt(v, 10) || d, for a number or undefined
ParseIntOr(v, d) == IF v.t = "number" /\ Truthy(v.n) THEN v.n ELSE d

\* offset = (currentPage - 1) * resultsPerPage, and with pages counted from 0
PageOffset_ZeroBased(currentPage, resultsPerPage) ==
  currentPage * resultsPerPage
PageOffset(currentPage, resultsPerPage) == (currentPage - 1) * resultsPerPage

\* the FTS5 query parser rejects the text of a MATCH: "x(" is unbalanced
FtsSyntaxError(query) == query = "x("

\* searchCasts whose connection stays open when a statement throws
SearchCastsCall_NoFinally(st, table, query, o) ==
  IF st = "unopenable"
  THEN {[value |-> [results |-> <<>>, total |-> 0], opened |-> FALSE,
         closed |-> FALSE, statements |-> 0]}
  ELSE IF st # "ok" \/ FtsSyntaxError(query)
  THEN {[value |-> [results |-> <<>>, total |-> 0], opened |-> TRUE,
         closed |-> FALSE, statements |-> 0]}
  ELSE {[value |-> v, opened |-> TRUE, closed |-> TRUE, statements |-> 2] :
          v \in SearchCasts(table, query, o)}

\* searchCasts with its try / catch / finally, on a store that cannot be
\* opened ("unopenable"), has no tables ("no_tables": prepare throws),
\* fails at the main statement ("io_error") or works ("ok"): the value
\* returned, whether a connection was opened and closed, and the number of
\* statements executed
SearchCastsCall(st, table, query, o) ==
  LET empty == [results |-> <<>>, total |-> 0]
      opened == st # "unopenable"
      statements == IF st \in {"unopenable", "no_tables"} THEN 0
                    ELSE IF FtsSyntaxError(query) THEN 1 ELSE 2
      values == IF st = "ok" /\ ~FtsSyntaxError(query)
                THEN SearchCasts(table, query, o) ELSE {empty}
  IN {[value |-> v, opened |-> opened, closed |-> opened,
       statements |-> statements] : v \in values}

\* getIndexStats with its try / catch / finally; version 0 stands for
\* 'unknown'; of several versions of a strategy the object keeps one
GetIndexStats(st, store, version) ==
  LET opened == st # "unopenable"
      groups == {[id |-> row.sid, version |-> row.ver,
                  count |-> Cardinality({r \in store.strat :
                                r.sid = row.sid /\ r.ver = row.ver
                                /\ Truthy(r.at)})] :
                   row \in {r \in store.strat : Truthy(r.at)}}
      ids == {g.id : g \in groups}
      values ==
        IF st = "ok"
        THEN {[totalFiles |-> TotalFiles(store),
               indexedFiles |-> IndexedFiles(store),
               strategies |-> f, indexerVersion |-> version,
               schemaVersion |-> "1.1.0", error |-> FALSE] :
                f \in {g \in [ids -> groups] : \A i \in ids : g[i].id = i}}
        ELSE {[totalFiles |-> 0, indexedFiles |-> 0, strategies |-> <<>>,
               indexerVersion |-> 0, schemaVersion |-> "unknown",
               error |-> TRUE]}
  IN {[value |-> v, opened |-> opened, closed |-> opened] : v \in values}

\* POST /api/search: the responses it may send, with the options it passed
\* to searchCasts and the record of that call
SearchApi(body, st, table) ==
  IF ~(body.query.t = "string" /\ body.query.s # "")
  THEN {[status |-> 400, page |-> 0, totalPages |-> 0, hasMore |-> FALSE,
         totalCount |-> 0, count |-> 0, results |-> <<>>, called |-> FALSE,
         options |-> Options(<<>>, 0, 0, 0, 0, 0),
         search |-> [value |-> [results |-> <<>>, total |-> 0],
                     opened |-> FALSE, closed |-> FALSE, statements |-> 0]]}
  ELSE
    LET currentPage == ParseIntOr(body.page, 1)
        resultsPerPage == ParseIntOr(body.limit, DefaultLimit)
        options == Options(<<>>, 0, 0, resultsPerPage,
                           PageOffset(currentPage, resultsPerPage),
                           IF body.timeWindow.t = "number"
                              /\ Truthy(body.timeWindow.n)
                           THEN body.timeWindow.n ELSE 10)
        totalPages(total) ==
          (total + resultsPerPage - 1) \div resultsPerPage
    IN {[status |-> 200, page |-> currentPage,
         totalPages |-> totalPages(c.value.total),
         hasMore |-> currentPage < totalPages(c.value.total),
         totalCount |-> c.value.total, count |-> Len(c.value.results),
         results |-> [k \in DOMAIN c.value.results |->
                        [snippet |-> c.value.results[k].content,
                         timeOffset |-> c.value.results[k].time_offset,
                         tags |-> c.value.results[k].tags]],
         called |-> TRUE, options |-> options, search |-> c] :
          c \in SearchCastsCall(st, table, body.query.s, options)}

\* n fragments of completed artifacts recorded every `gap` minutes
SpacedTable(n, gap) ==
  [i \in 1..n |-> JoinRow(i, i * gap * MsPerMinute, <<"x">>, <<>>, TRUE)]

\* the requests and the stores they meet
MaxPage == 3
Requests ==
  [query : {Undefined, Number(5), String(""), String("x"), String("x(")},
   limit : {Undefined} \cup {Number(n) : n \in 0..MaxPage},
   page : {Undefined} \cup {Number(n) : n \in 0..MaxPage},
   timeWindow : {Undefined, Number(0), Number(1), Number(10)}]

InitApi ==
  /\ InitAtRest
  /\ args \in [call : {"search"}, body : Requests,
                state : {"ok", "unopenable", "no_tables", "io_error"},
                table : {SpacedTable(n, g) : n \in {0, 2, 5}, g \in {5, 10}},
                store : {EmptyStore}]
       \cup [call : {"stats"}, body : {[query |-> Undefined,
                limit |-> Undefined, page |-> Undefined,
                timeWindow |-> Undefined]},
             state : {"ok", "unopenable", "no_tables", "io_error"},
             table : {<<>>},
             store : {StoreWith(r) : r \in FileRecords} \cup
                     {IndexCastFile(EmptyStore, "pa", "s1", 1,
                                    File(ContentX, 1), 1).store}]

CallSearchApi ==
  /\ ~result.returned
  /\ args.call = "search"
  /\ \E v \in SearchApi(args.body, args.state, args.table) :
       result' = Returned(v)
  /\ UNCHANGED args
  /\ AtRest

CallGetIndexStats ==
  /\ ~result.returned
  /\ args.call = "stats"
  /\ \E v \in GetIndexStats(args.state, args.store, 1) :
       result' = Returned(v)
  /\ UNCHANGED args
  /\ AtRest

SpecApi == InitApi /\ [][CallSearchApi \/ CallGetIndexStats]_vars

\* joined tag strings (tagsString: the tags of the filename joined by ", ")
\* and requested tags
MaxTagLen == 3
TagChars == {"a", "b", "A", ",", " "}
TagStrings ==
  {<<>>, <<"a", ",", " ", "b">>}
    \cup UNION {[1..n -> TagChars] : n \in 1..MaxTagLen}
RequestedTags ==
  {<<>>} \cup UNION {[1..n -> {"a", "b", "A", "_", "%"}] : n \in 1..2}

InitTags ==
  /\ InitAtRest
  /\ args \in [tagsString : TagStrings,
                tags : {<<>>} \cup {<<t>> : t \in RequestedTags}
                         \cup {<<t, <<"b">>>> : t \in RequestedTags}]

\* the tag condition of searchCasts on one fragment
CallTagsLike ==
  /\ ~result.returned
  /\ result' = Returned(TagsLike([tags |-> args.tagsString], args.tags))
  /\ UNCHANGED args
  /\ AtRest

SpecTags == InitTags /\ [][CallTagsLike]_vars

\* ------------------------------------------------------------ properties
\* The pass of run 1 in progress or just ended started right after a pass
\* that ran to its end with no change of the file system and no store error,
\* nothing changed in between, and nothing has disturbed it so far.
QuietRepeatedPass ==
  /\ hist.n >= 2
  /\ hist.start.prevOK
  /\ hist.start.touched = {}
  /\ ~hist.start.other
  /\ ~hist.dirty

SecondPassIsNoOp == ~hist.inserted /\ db.strat = hist.start.db.strat

AllMtimesAvailable ==
  \A p \in Paths : hist.start.fs[p].present => Truthy(hist.start.fs[p].mtime)

\* C1 as stated: a reindex pass repeated with no file change in between
\* inserts no fragment and leaves every completedAt unchanged, for every set
\* of discovered artifacts.
C1_Original == QuietRepeatedPass => SecondPassIsNoOp

\* C1 where every discovered artifact has a non-zero modification time: the
\* repeated pass inserts no fragment and leaves every completedAt unchanged
\* (registerFile takes a modification time of 0 for a missing one).
C1_Idempotence == QuietRepeatedPass /\ AllMtimesAvailable => SecondPassIsNoOp

C1_Witness ==
  /\ QuietRepeatedPass /\ AllMtimesAvailable
  /\ run[1].pc = "idle"
  /\ hist.skipped # {}
  /\ \E p \in Paths : db.content[p] # <<>>

\* C2: a call of indexCastFile that fails (stat, load, or a statement of the
\* transaction throws) leaves the committed store as it was when the call
\* began, holds no lock afterwards and returns failure.
C2_RollbackOnFailure ==
  [][\A r \in Runs :
       (/\ run[r].pc \in {"next", "begin", "clear", "load", "insert"}
        /\ <<run'[r].si, run'[r].fi>> # <<run[r].si, run[r].fi>>
        /\ run'[r].ret = "fail")
       => /\ db' = db
          /\ InTx(r) => db' = run[r].base
          /\ writer' # r]_vars

C2_Witness ==
  /\ run[1].ret = "fail"
  /\ run[1].wrote
  /\ db.files[run[1].lastp].exists
  /\ db.content[run[1].lastp] # <<>>

\* The pass of run 1 has ended; it started right after an undisturbed pass
\* and the only change in between was a rewrite of the existing file e.p.
OnlyModifiedBetween(e) ==
  /\ hist.n >= 2
  /\ run[1].pc = "idle"
  /\ hist.start.prevOK
  /\ ~hist.start.other
  /\ hist.start.touched = {e}
  /\ ~hist.dirty

StratRows(store, p) == {row \in store.strat : row.file = p}

\* C3, for a rewrite that changes the size or the modification time and
\* leaves the file readable, the other files having a non-zero modification
\* time: the pass after the rewrite rewrites the fragments of that artifact,
\* and the record, the application records and the fragments of every other
\* artifact are the same before and after the pass.
C3_ChangeSensitivity ==
  \A e \in hist.start.touched :
    (/\ OnlyModifiedBetween(e)
     /\ StatOf(hist.start.fs[e.p]) # e.old
     /\ ~LoadFails(hist.start.fs[e.p].content)
     /\ \A q \in Paths \ {e.p} :
          hist.start.fs[q].present => Truthy(hist.start.fs[q].mtime))
    => /\ e.p \in hist.reproc
       /\ \A q \in Paths \ {e.p} :
            /\ db.files[q] = hist.start.db.files[q]
            /\ db.content[q] = hist.start.db.content[q]
            /\ StratRows(db, q) = StratRows(hist.start.db, q)

HasCompletedApplication(store, p) ==
  \E row \in store.strat : row.file = p /\ Truthy(row.at)

\* C5 as stated: in every committed state an artifact has a fragment iff a
\* completed strategy application references it.
C5_Original ==
  \A p \in Paths : (db.content[p] # <<>>) <=> HasCompletedApplication(db, p)

\* C5 amended: in every committed state an artifact has a fragment iff a
\* completed strategy application references it and its last extraction
\* yielded at least one fragment (an artifact with no printable event is
\* applied and completed without any fragment).
C5_FragmentsImplyApplication ==
  \A p \in Paths :
    (db.content[p] # <<>>)
      <=> (HasCompletedApplication(db, p) /\ lastExtract[p] # <<>>)

C5_Witness ==
  /\ \E p \in Paths : HasCompletedApplication(db, p) /\ db.content[p] = <<>>
  /\ \E p \in Paths : HasCompletedApplication(db, p) /\ db.content[p] # <<>>

\* C6: each logical filename has at most one Artifact Record.
C6_OneArtifactPerRecording ==
  \A p, q \in Paths :
    (db.files[p].exists /\ db.files[q].exists /\ Filename(p) = Filename(q))
      => p = q

\* C7: a call of indexCastFile for a file that was rewritten between two
\* passes (with a later modification time) after strategy S was applied to
\* it, and has not been reprocessed under S since, does not skip the file.
C7_StaleAfterModification ==
  [][\A r \in Runs :
       (/\ run[r].pc = "begin"
        /\ run'[r].pc = "next"
        /\ run'[r].ret = "skip"
        /\ run[r].stats = StatOf(fs[CurPath(r)]))
       => <<CurPath(r), CurStrategy(r)>> \notin stale]_vars

\* C8: the fragments an Artifact Record owns in the committed store are
\* exactly one copy of the rows extracted by its last committed processing.
C8_NoStaleOrDuplicateFragments ==
  \A p \in Paths :
    /\ db.content[p] = lastExtract[p]
    /\ \E c \in Contents : db.content[p] = RowsOf(c)

C8_Witness ==
  \E p \in Paths :
    /\ hist.n >= 2
    /\ p \in hist.reproc
    /\ hist.start.db.content[p] # <<>>
    /\ db.content[p] # <<>>
    /\ db.content[p] # hist.start.db.content[p]

\* the states of the store a query could be evaluated on: the committed one
\* and the uncommitted one of every open transaction
StoreViews == {db} \cup {run[r].work : r \in {x \in Runs : InTx(x)}}

OwnersCompleted(store, rows) ==
  \A i \in 1..Len(rows) : store.files[rows[i].file].completed

\* C4: searchCasts returns no fragment of an artifact whose record has
\* completed = false, on the committed store and on the store as it is
\* part-way through any transaction; the rows a search call returned belong
\* to artifacts that were completed in the state it read.
C4_SearchScoping ==
  /\ \A v \in StoreViews, q \in Queries : OwnersCompleted(v, MatchRows(v, q))
  /\ (rd.kind = "search" /\ rd.pc = "idle")
       => OwnersCompleted(rd.db2, rd.rows)

C4_Witness ==
  /\ rd.kind = "search" /\ rd.pc = "idle" /\ rd.rows # <<>>
  /\ \E r \in Runs :
       /\ InTx(r)
       /\ \E p \in Paths :
            /\ ~run[r].work.files[p].completed
            /\ \E i \in 1..Len(run[r].work.content[p]) :
                 Matches(run[r].work.content[p][i], rd.q)

CommittedRecordsWhole ==
  \A p \in Paths :
    /\ db.content[p] = lastExtract[p]
    /\ db.files[p].exists
         => db.files[p].completed /\ HasCompletedApplication(db, p)
    /\ ~db.files[p].exists => db.content[p] = <<>>

CommitIsWholeTransaction ==
  db' # db =>
    \E r \in Runs :
      /\ run[r].pc = "insert"
      /\ db' = IndexCastFileTx(db, CurPath(r), CurStrategy(r),
                               CurVersion(r), run[r].stats,
                               run[r].pending, clock)

\* C9: with two runs interleaved at any statement, every change of the
\* committed store is the effect of one whole indexCastFile transaction on
\* the committed state it replaces, and every committed record is completed
\* and owns exactly one copy of the rows of its last committed extraction.
C9_ConcurrentRunsSerialize ==
  []CommittedRecordsWhole /\ [][CommitIsWholeTransaction]_vars

C9_Witness ==
  \E r, o \in Runs :
    /\ r # o
    /\ writer = r /\ run[r].pc = "insert" /\ run[r].k > 1
    /\ run[o].ret = "fail"
    /\ run[o].lastp = CurPath(r)
    /\ db # EmptyStore

ReadFinished == rd.pc = "idle" /\ rd.n > 0

C11_ChangeDetection ==
  (result.returned /\ args.existing.exists) =>
    LET e == args.existing
        st == args.fileInfo
    IN IF e.size = st.size /\ e.mtime = st.mtime /\ Truthy(st.mtime)
       THEN result.value = StoreWith(e)
       ELSE result.value =
              StoreWith([e EXCEPT !.size = st.size, !.mtime = st.mtime,
                                  !.completed = FALSE])


\* the pass of run 1 has ended and strategy sid was active in it with a
\* version other than the one the pass before it had loaded
VersionChangedBefore(sid) ==
  /\ hist.n >= 2
  /\ run[1].pc = "idle"
  /\ \E i \in 1..Len(hist.start.config.currentStrategies) :
       hist.start.config.currentStrategies[i] = sid
  /\ StrategyVersion(hist.start.config, sid)
       # StrategyVersion(hist.start.prevConfig, sid)

\* C12: the pass after a change of the version of an active strategy S to v'
\* skips no discovered artifact under S, and every artifact it processed
\* with success is up to date for (S, v') afterwards.
C12_VersionBumpForcesReapplication ==
  \A sid \in StrategyIds :
    VersionChangedBefore(sid) =>
      \A i \in 1..Len(run[1].castFiles) :
        LET p == run[1].castFiles[i] IN
        /\ <<p, sid>> \in hist.called
        /\ <<p, sid>> \notin hist.skipped
        /\ <<p, sid>> \in hist.ok =>
             IsFileIndexed(db, p, sid, StrategyVersion(hist.start.config, sid))


\* C12 where no application record of (artifact, S, v') existed when the
\* pass began: the artifact is not skipped, and is up to date for (S, v')
\* after a success.
C12_FreshVersion ==
  \A sid \in StrategyIds :
    VersionChangedBefore(sid) =>
      \A i \in 1..Len(run[1].castFiles) :
        LET p == run[1].castFiles[i]
            ver == StrategyVersion(hist.start.config, sid)
        IN (~\E row \in hist.start.db.strat :
               row.file = p /\ row.sid = sid /\ row.ver = ver)
           => /\ <<p, sid>> \in hist.called
              /\ <<p, sid>> \notin hist.skipped
              /\ <<p, sid>> \in hist.ok => IsFileIndexed(db, p, sid, ver)


\* The pass of run 1 has ended without a store error; it started right after
\* an undisturbed pass with no file change in between and with the same
\* strategies, and the version string of the configuration it loaded
\* differed from the stored indexer_version.
OnlyConfigVersionChanged ==
  /\ hist.n >= 2
  /\ run[1].pc = "idle"
  /\ hist.start.prevOK
  /\ hist.start.touched = {}
  /\ ~hist.start.other
  /\ ~hist.dirty
  /\ hist.start.config.currentStrategies
       = hist.start.prevConfig.currentStrategies
  /\ hist.start.config.indexStrategies
       = hist.start.prevConfig.indexStrategies
  /\ hist.start.config.version # hist.start.indexer_version

\* C13: a pass in which only the version string of the configuration differs
\* from the stored indexer_version stores the new value and changes no
\* artifact record, no application record and no fragment.
C13_IndexerVersionAlone ==
  OnlyConfigVersionChanged =>
    /\ indexer_version = hist.start.config.version
    /\ db = hist.start.db
    /\ ~hist.inserted

\* C13 where every discovered artifact has a non-zero modification time
\* (registerFile takes a modification time of 0 for a missing one and
\* reprocesses the file in every pass).
C13_WithAvailableMtimes ==
  (OnlyConfigVersionChanged /\ AllMtimesAvailable) =>
    /\ indexer_version = hist.start.config.version
    /\ db = hist.start.db
    /\ ~hist.inserted


\* the discovered artifacts no other discovered artifact is as recent as
MostRecentlyModified(files, castFiles) ==
  {p \in Paths :
     /\ \E i \in 1..Len(castFiles) : castFiles[i] = p
     /\ \A j \in 1..Len(castFiles) :
          castFiles[j] # p => files[castFiles[j]].mtime < files[p].mtime}

\* C14: when a pass of run 1 has ended with no file change during it, the
\* record, the application records and the fragments of the most recently
\* modified discovered artifact are as they were when the pass began.
C14_SkipsMostRecentArtifact ==
  (hist.n >= 1 /\ run[1].pc = "idle" /\ ~hist.dirty) =>
    \A p \in MostRecentlyModified(hist.start.fs, run[1].castFiles) :
      /\ <<p, hist.start.config.currentStrategies[1]>> \notin hist.ok
      /\ db.files[p] = hist.start.db.files[p]
      /\ db.content[p] = hist.start.db.content[p]
      /\ StratRows(db, p) = StratRows(hist.start.db, p)


\* C15: a file whose name does not encode a date and a time per the naming
\* convention has no Artifact Record and no fragment in the store.
C15_OutsideConventionExcluded ==
  \A p \in Paths :
    ~ParseFilenameDate(Filename(p)).ok =>
      ~db.files[p].exists /\ db.content[p] = <<>>


\* the (artifact, strategy) pairs of the pass of run 1, for the active
\* strategies that have a definition
PairsOfPass ==
  {<<run[1].castFiles[i], run[1].config.currentStrategies[j]>> :
     i \in 1..Len(run[1].castFiles),
     j \in {k \in 1..Len(run[1].config.currentStrategies) :
              run[1].config.indexStrategies[
                run[1].config.currentStrategies[k]] # 0}}

\* the pairs for which indexCastFile returned false in the pass that ended
FailedPairs == hist.called \ (hist.ok \cup hist.skipped)

\* C16: whatever calls of indexCastFile fail, a pass that has begun can
\* always take its next step, and when it has ended indexCastFile was called
\* for every (artifact, strategy) pair of the pass and the run holds no lock.
C16_FailureDoesNotAbortRun ==
  /\ run[1].pc # "idle" => ENABLED RunStep(1)
  /\ (hist.n >= 1 /\ run[1].pc = "idle") =>
       /\ hist.called = PairsOfPass
       /\ writer # 1

C16_Witness ==
  /\ hist.n >= 1 /\ run[1].pc = "idle"
  /\ Len(run[1].castFiles) >= 2
  /\ Len(run[1].config.currentStrategies) = 2
  /\ <<run[1].castFiles[1], "s1">> \in FailedPairs
  /\ <<run[1].castFiles[2], "s1">> \in hist.ok
  /\ <<run[1].castFiles[1], "s2">> \in hist.called


\* the fragments of the well-formed event records among `lines`: arrays
\* [t, "o", text] whose text is not blank once the control sequences are
\* stripped, in file order
FragmentsOf(lines) ==
  LET evs == SelectSeq(lines, LAMBDA ln :
                 ln.k = "ev" /\ ~IsBlank(StripColors(ln.text)))
  IN [i \in 1..Len(evs) |->
        [content |-> StripColors(evs[i].text), time_offset |-> evs[i].t]]

\* C17: for an artifact whose first line is the header, indexCastFile
\* returns success and stores the fragment of every well-formed event,
\* whatever malformed lines (invalid JSON, not a 3-element array, payload
\* not a string) stand between them.
C17_MalformedEventsSkipped ==
  (result.returned /\ Head(args.content) = Hdr) =>
    /\ result.value.ret
    /\ result.value.store.content[args.filePath]
         = FragmentsOf(Tail(args.content))

\* C18: after a successful indexCastFile, for every sequence of lines, the
\* stored fragments are exactly one per event record other than the header
\* whose payload is not blank after stripping.
C18_FragmentExtraction ==
  (result.returned /\ result.value.ret) =>
    result.value.store.content[args.filePath] = FragmentsOf(args.content)


\* artifactTimestamp / windowMillis rounded down, and truncated towards zero
FloorBucket(ts, w) ==
  IF ts = 0 THEN [null |-> TRUE, n |-> 0] ELSE [null |-> FALSE, n |-> ts \div w]
TruncBucket(ts, w) ==
  IF ts = 0 THEN [null |-> TRUE, n |-> 0]
  ELSE [null |-> FALSE, n |-> IF ts > 0 THEN ts \div w ELSE -((-ts) \div w)]

\* The answer of searchCasts is the deduplication of the fragments that pass
\* the filters, under the bucket function B: total is the number of
\* non-empty buckets; every result passes the filters and no fragment of its
\* bucket has a later artifact timestamp; the k-th result is preceded by
\* exactly skip + k - 1 buckets in descending timestamp order (so the
\* results are in descending order, one per bucket); and the results are
\* `count` many.
Deduplicated(B(_, _), skip, count) ==
  LET o == args.options
      w == TimeWindowMs(o.timeWindow)
      tbl == args.table
      pass == Matching(tbl, args.query, o)
      buckets == {B(tbl[i].timestamp, w) : i \in pass}
      res == result.value.results
      before(row) ==
        {b \in buckets :
           /\ b # B(row.timestamp, w)
           /\ \E i \in pass :
                /\ B(tbl[i].timestamp, w) = b
                /\ TimestampDesc(tbl[i].timestamp, row.timestamp)
                /\ tbl[i].timestamp # row.timestamp}
  IN /\ result.value.total = Cardinality(buckets)
     /\ Len(res) = count
     /\ \A k \in DOMAIN res :
          /\ \E i \in pass : tbl[i] = res[k]
          /\ \A i \in pass :
               B(tbl[i].timestamp, w) = B(res[k].timestamp, w)
                 => TimestampDesc(res[k].timestamp, tbl[i].timestamp)
          /\ Cardinality(before(res[k])) = skip + k - 1

\* the number of rows LIMIT limit OFFSET offset leaves of n
PageLength(n, limit, offset) ==
  IF offset >= n THEN 0 ELSE IF limit < n - offset THEN limit ELSE n - offset

\* C19 (as stated): for timeWindow > 0, searchCasts returns exactly one
\* fragment for each non-empty bucket floor(artifactTimestamp /
\* windowMillis) of the fragments passing the filters, the one with the
\* greatest artifactTimestamp of its bucket, in descending order of
\* artifactTimestamp, and total is the number of non-empty buckets.
C19_Original ==
  (result.returned /\ args.options.timeWindow > 0) =>
    Deduplicated(FloorBucket, 0, result.value.total)

\* C19 (amended): for timeWindow > 0, with buckets artifactTimestamp /
\* windowMillis truncated towards zero (one more bucket for the artifacts
\* without timestamp, sorted last), total is the number of non-empty
\* buckets of the fragments passing the filters, and searchCasts returns
\* the rows offset+1 .. offset+limit of the list that holds, for each
\* bucket, one fragment of the greatest artifactTimestamp of that bucket,
\* in descending order of artifactTimestamp.
C19_TimeWindowDeduplication ==
  (result.returned /\ args.options.timeWindow > 0) =>
    Deduplicated(TruncBucket, args.options.offset,
                 PageLength(result.value.total, args.options.limit,
                            args.options.offset))

\* a search with a time window returned a whole list of two results, one of
\* them chosen among two fragments of different timestamps in its bucket
C19_Witness ==
  /\ result.returned
  /\ args.options.timeWindow > 0
  /\ result.value.total = 2
  /\ Len(result.value.results) = 2
  /\ \E i, j \in Matching(args.table, args.query, args.options) :
       /\ args.table[i].timestamp # args.table[j].timestamp
       /\ TruncBucket(args.table[i].timestamp,
                      TimeWindowMs(args.options.timeWindow))
            = TruncBucket(args.table[j].timestamp,
                          TimeWindowMs(args.options.timeWindow))

\* the search of the example: the four fragments based at T, the default
\* options, timeWindow = 10
IsExample(T) ==
  /\ args.table = ExampleTable(T)
  /\ args.options = Options(<<>>, 0, 0, DefaultLimit, 0, 10)
ResultTimestamps ==
  {result.value.results[k].timestamp : k \in DOMAIN result.value.results}
ExampleAnswer(T) ==
  /\ result.value.total = 2
  /\ Len(result.value.results) = 2
  /\ ResultTimestamps = {T + 9 * MsPerMinute, T + 15 * MsPerMinute}
\* T is less than a minute after a multiple of 10 minutes since the epoch
Aligned(T) == T >= 0 /\ T % (10 * MsPerMinute) < MsPerMinute

\* C20 (as stated): for every base timestamp T, the search of the example
\* returns exactly 2 results, the fragments at T + 9 min and T + 15 min.
C20_Original ==
  \A T \in BaseTimestamps :
    (result.returned /\ IsExample(T)) => ExampleAnswer(T)

\* C20 (amended): for every base timestamp T >= 0 less than a minute after
\* a multiple of 10 minutes, the search of the example returns exactly 2
\* results, the fragments at T + 9 min and T + 15 min.
C20_TimeWindowExample ==
  \A T \in BaseTimestamps :
    (result.returned /\ IsExample(T) /\ Aligned(T)) => ExampleAnswer(T)

\* the example was searched at an aligned base and gave two results
C20_Witness ==
  /\ result.returned
  /\ \E T \in BaseTimestamps : IsExample(T) /\ Aligned(T)
  /\ Len(result.value.results) = 2


\* row a comes before row b by artifact timestamp descending (rows without
\* timestamp last), then time offset ascending
Precedes(a, b) ==
  \/ a.timestamp # 0 /\ (b.timestamp = 0 \/ a.timestamp > b.timestamp)
  \/ a.timestamp = b.timestamp /\ a.time_offset < b.time_offset

\* C21: for timeWindow <= 0, the result set of searchCasts holds every
\* fragment that passes the match, tag, date and completed filters, total is
\* their number, and the results are the slice offset+1 .. offset+limit of
\* that set ordered by artifact timestamp descending, then time offset
\* ascending.
C21_NoDeduplicationWithoutWindow ==
  (result.returned /\ args.options.timeWindow <= 0) =>
    LET o == args.options
        pass == Matching(args.table, args.query, o)
        res == result.value.results
    IN /\ result.value.total = Cardinality(pass)
       /\ Len(res) = PageLength(Cardinality(pass), o.limit, o.offset)
       /\ \A k \in DOMAIN res :
            /\ \E i \in pass : args.table[i] = res[k]
            /\ Cardinality({j \in pass : Precedes(args.table[j], res[k])})
                 = o.offset + k - 1

\* a search without window returned all of three fragments, two of them of
\* the same artifact timestamp
C21_Witness ==
  /\ result.returned
  /\ args.options.timeWindow <= 0
  /\ result.value.total = 3
  /\ Len(result.value.results) = 3
  /\ result.value.results[1].timestamp = result.value.results[2].timestamp


\* t occurs in s as a substring
Substring(t, s) ==
  \E i \in 0..(Len(s) - Len(t)) : SubSeq(s, i + 1, i + Len(t)) = t

\* C23: with a non-empty tags list a fragment passes the tag filter if and
\* only if at least one requested tag occurs as a substring of its joined
\* tag string; with an empty list every fragment passes.
C23_TagFiltering ==
  result.returned =>
    (result.value <=>
       \/ args.tags = <<>>
       \/ \E k \in 1..Len(args.tags) : Substring(args.tags[k], args.tagsString))


\* the request is a search for "x" with limit L >= 1 and page p >= 1 on a
\* working store
PagedRequest(L, p) ==
  /\ result.returned
  /\ args.call = "search"
  /\ args.state = "ok"
  /\ args.body.query = String("x")
  /\ args.body.limit = Number(L)
  /\ args.body.page = Number(p)

\* the whole ordered result set of the request: the search with the window
\* the handler passed and a limit that cuts nothing
ResultSet ==
  (CHOOSE v \in SearchCasts(args.table, "x",
                            Options(<<>>, 0, 0, Len(args.table) + 1, 0,
                                    result.value.options.timeWindow)) :
     TRUE).results

\* C22: for N filtered, deduplicated matches, limit L >= 1 and page p >= 1,
\* the search API returns exactly the items (p-1)*L+1 .. min(p*L, N) of the
\* ordered result set, reports total N and totalPages = ceil(N/L), and
\* hasMore exactly if p*L < N.
C22_Pagination ==
  \A L \in 1..MaxPage, p \in 1..MaxPage :
    PagedRequest(L, p) =>
      LET N == Len(ResultSet)
          lo == (p - 1) * L + 1
          hi == IF p * L < N THEN p * L ELSE N
          r == result.value
      IN /\ r.status = 200
         /\ r.totalCount = N
         /\ r.count = (IF hi < lo THEN 0 ELSE hi - lo + 1)
         /\ Len(r.results) = r.count
         /\ \A k \in 1..r.count :
              /\ r.results[k].timeOffset = ResultSet[lo + k - 1].time_offset
              /\ r.results[k].snippet = ResultSet[lo + k - 1].content
         /\ r.totalPages * L >= N /\ (r.totalPages - 1) * L < N
         /\ r.hasMore <=> p * L < N

\* limit 2, page 2 over 5 matches: items 3 and 4 and hasMore
C22_Witness ==
  /\ PagedRequest(2, 2)
  /\ result.value.totalCount = 5
  /\ result.value.count = 2
  /\ result.value.results[1].timeOffset = ResultSet[3].time_offset
  /\ result.value.results[2].timeOffset = ResultSet[4].time_offset
  /\ result.value.hasMore

\* C24: a search request whose query text is missing, empty, not a string
\* or malformed gets an error response, and no statement is executed
\* against the store for it.
C24_QueryValidation ==
  (/\ result.returned
   /\ args.call = "search"
   /\ args.body.query \in {Undefined, Number(5), String(""), String("x(")})
    => /\ result.value.status >= 400
       /\ result.value.search.statements = 0

\* C25: searchCasts returns {results: [], total: 0} and getIndexStats zeroed
\* statistics with an error field whenever the store fails, and in every
\* case the connection the call opened is closed when it returns.
C25_QueryCallsNeverThrow ==
  result.returned =>
    /\ args.call = "search" /\ result.value.called =>
         /\ result.value.search.opened => result.value.search.closed
         /\ args.state # "ok" =>
              result.value.search.value = [results |-> <<>>, total |-> 0]
    /\ args.call = "stats" =>
         /\ result.value.opened => result.value.closed
         /\ args.state # "ok" =>
              /\ result.value.value.error
              /\ result.value.value.totalFiles = 0
              /\ result.value.value.indexedFiles = 0
              /\ result.value.value.strategies = <<>>

\* searchCasts met a store without tables: it returned the empty answer and
\* closed the connection it had opened
C25_Witness ==
  /\ result.returned
  /\ args.call = "search"
  /\ args.state = "no_tables"
  /\ result.value.called
  /\ result.value.search.opened /\ result.value.search.closed
  /\ result.value.search.value = [results |-> <<>>, total |-> 0]

\* C30: the search API replaces the request's timeWindow by the default of
\* 10 minutes only if it is not specified; a specified timeWindow, 0
\* included, reaches searchCasts as it is.
C30_TimeWindowDefault ==
  (result.returned /\ args.call = "search" /\ result.value.called) =>
    result.value.options.timeWindow =
      (IF args.body.timeWindow = Undefined THEN 10
       ELSE args.body.timeWindow.n)


\* the whole name is asciinema_<date>_<time>[_tags_<tag list>].cast
FollowsConvention(name) ==
  /\ Len(name) >= 5
  /\ name[1] = "asciinema_" /\ name[2] \in DateTokens
  /\ name[3] = "_" /\ name[4] \in TimeTokens
  /\ name[Len(name)] = ".cast"
  /\ \/ Len(name) = 5
     \/ /\ Len(name) >= 7
        /\ name[5] = "_tags_"
        /\ \A k \in 6..(Len(name) - 1) : name[k] \in {"work", "demo", "-", " "}

\* the tag suffix of a name that follows the convention
TagSuffix(name) == IF Len(name) = 5 THEN <<>> ELSE SubSeq(name, 6, Len(name) - 1)

\* the result of parseFilenameDate for a name that follows the convention:
\* date, time with ':', tags the non-empty parts of the suffix between
\* hyphens (blanks at their ends aside), tagsString those joined by ', '
ParsedAsWritten(name, r) ==
  LET text == TagSuffix(name)
      starts == {k \in 1..Len(text) :
                   /\ text[k] \notin {"-", " "}
                   /\ \A j \in 1..(k - 1) :
                        \/ \E m \in j..(k - 1) : text[m] = "-"
                        \/ text[j] = " "}
  IN /\ r.ok
     /\ Len(r.tags) = Cardinality(starts)
     /\ r.date = name[2]
     /\ r.time = (IF name[4] = "T1" THEN "T1:" ELSE "T2:")
     /\ \A k \in 1..Len(r.tags) :
          /\ r.tags[k] # <<>>
          /\ \A m \in 1..Len(r.tags[k]) : r.tags[k][m] # "-"
          /\ Head(r.tags[k]) # " " /\ r.tags[k][Len(r.tags[k])] # " "
     /\ SelectSeq(r.tagsString, LAMBDA c : c \notin {", ", " "})
          = SelectSeq(text, LAMBDA c : c \notin {"-", " "})
     /\ Cardinality({k \in 1..Len(r.tagsString) : r.tagsString[k] = ", "})
          = (IF r.tags = <<>> THEN 0 ELSE Len(r.tags) - 1)

\* C28: parseFilenameDate returns null for every filename that does not
\* follow asciinema_<date>_<time>[_tags_<t1-t2-...>].cast, a name with
\* another extension included, and for every filename that does, the date,
\* the time with ':' separators, the tags and their joined string.
C28_FilenameParsing ==
  result.returned =>
    IF FollowsConvention(args.filename)
    THEN ParsedAsWritten(args.filename, result.value)
    ELSE result.value = NoParse

\* for the names that follow the convention the parsed fields are as C28
\* states them
C28_ConventionalNames ==
  (result.returned /\ FollowsConvention(args.filename)) =>
    ParsedAsWritten(args.filename, result.value)


\* the active strategy ids of the pass of run 1 without definition
UnknownIds ==
  {run[1].config.currentStrategies[j] :
     j \in {k \in 1..Len(run[1].config.currentStrategies) :
              run[1].config.indexStrategies[
                run[1].config.currentStrategies[k]] = 0}}

\* C26: in a pass, indexCastFile is never called and the store holds no
\* application for an active strategy id without definition, and when the
\* pass has ended indexCastFile was called for every discovered artifact
\* under every other active strategy.
C26_UnknownStrategySkipped ==
  hist.n >= 1 =>
    /\ \A pair \in hist.called : pair[2] \notin UnknownIds
    /\ \A row \in db.strat : row.sid \notin UnknownIds
    /\ run[1].pc = "idle" =>
         \A i \in 1..Len(run[1].castFiles),
            j \in 1..Len(run[1].config.currentStrategies) :
           run[1].config.currentStrategies[j] \notin UnknownIds =>
             <<run[1].castFiles[i], run[1].config.currentStrategies[j]>>
               \in hist.called

\* a pass ended whose first active strategy had no definition and whose
\* second one was applied to two artifacts
C26_Witness ==
  /\ hist.n >= 1 /\ run[1].pc = "idle"
  /\ run[1].config.currentStrategies = <<"s2", "s1">>
  /\ UnknownIds = {"s2"}
  /\ Len(run[1].castFiles) = 2
  /\ \A i \in 1..2 : <<run[1].castFiles[i], "s1">> \in hist.ok

\* the source location of a path: the plain or the compressed directory
LocationOf(p) == IF p \in ZIP_DIR THEN "zip" ELSE "casts"

\* the artifacts that lay in the readable locations when the pass of run 1
\* began
ReadableAtStart ==
  {p \in Paths : hist.start.fs[p].present /\ LocationOf(p) \notin unreadable}

\* C27: when a source location cannot be read, the artifacts the pass
\* discovers are exactly those of the locations that can be read, none of
\* the unreadable one, and when the pass has ended indexCastFile was called
\* for each of them under every active strategy that has a definition.
C27_DiscoveryErrorsNotFatal ==
  hist.n >= 1 =>
    /\ {run[1].castFiles[i] : i \in 1..Len(run[1].castFiles)}
         = ReadableAtStart
    /\ run[1].pc = "idle" =>
         \A q \in ReadableAtStart,
            j \in 1..Len(run[1].config.currentStrategies) :
           run[1].config.currentStrategies[j] \notin UnknownIds =>
             <<q, run[1].config.currentStrategies[j]>> \in hist.called

\* a pass ended with one location unreadable that held an artifact, and an
\* artifact of the other location was indexed
C27_Witness ==
  /\ hist.n >= 1 /\ run[1].pc = "idle"
  /\ Cardinality(unreadable) = 1
  /\ \E p \in Paths :
       hist.start.fs[p].present /\ LocationOf(p) \in unreadable
  /\ \E q \in ReadableAtStart, sid \in StrategyIds : <<q, sid>> \in hist.ok


\* the artifact records of a store that are not marked completed
Incomplete(store) ==
  {p \in Paths : store.files[p].exists /\ ~store.files[p].completed}

=============================================================================
